---- MODULE Spec2Model ----
(***************************************************************************)
(* Model of the Hyperdrive / Aurora DSQL credential refresher.             *)
(*                                                                         *)
(* The repository holds two shapes of the scheduled handler:               *)
(*   "index.ts"  src/src/index.ts      : lists, then for each endpoint     *)
(*               whose name was not listed signs a token and creates the   *)
(*               config, one endpoint after the other;                     *)
(*   "part_001"  src/unnamed/part_001  : starts every token generation,    *)
(*               lists into existingConfigs, joins the tokens, then calls  *)
(*               upsertConfig for every endpoint (src/unnamed/part_000 is  *)
(*               the same handler without the logging, under the config    *)
(*               names of index.ts).                                       *)
(* The variable handler says which one is deployed.  Both also export      *)
(* fetch, which answers every HTTP request with 404.                       *)
(*                                                                         *)
(* Spec is the worker on an account nobody else writes to; SpecShared adds *)
(* another party that deletes stored configs.                              *)
(***************************************************************************)
EXTENDS Integers, Sequences, FiniteSets, TLC

\* ------------------------------------------------------------------ bounds
MaxRuns == 2
MaxInitial == 2
MaxRemovals == 1

Runs == 1..MaxRuns

\* ------------------------------------------------------- program constants
Handlers == {"index.ts", "part_001"}

\* the endpoints array (two entries in every handler)
EndpointIds == {1, 2}

ConfigName(h, i) ==
    IF h = "index.ts"
    THEN (IF i = 1 THEN "dsql-demo-primary" ELSE "dsql-demo-secondary")
    ELSE (IF i = 1 THEN "dsql-admin-demo-primary" ELSE "dsql-admin-demo-secondary")

\* env.AWS_DSQL_ENDPOINT_PRIMARY / _SECONDARY
EndpointHost(i) == IF i = 1 THEN "primary.dsql" ELSE "secondary.dsql"

\* env.AWS_DSQL_REGION_PRIMARY / _SECONDARY
EndpointRegion(i) == IF i = 1 THEN "us-east-1" ELSE "us-east-2"

PostgresPort == 5432

\* the status of every Response of fetch
NotFound == 404

\* a name no handler reconciles, and the origin host of configs that were
\* stored before the first run
ForeignName == "unrelated-config"
StaleHost == "stale.dsql"

\* ------------------------------------------------------------ token signer
\* new URL(`https://${host}`) with Action and X-Amz-Expires set, rendered by
\* url.toString(): scheme, host, path "/", then the query pairs in order.
UnsignedUrl(host, action) ==
    << "https://", host, "/",
       <<"Action", action>>, <<"X-Amz-Expires", "604800">> >>

\* AwsV4Signer.sign() with signQuery: the same URL with the signature
\* parameters in its query string.  The signature depends on the request,
\* the region and the signing time.
SignerSign(url, region, time) ==
    url \o << <<"X-Amz-Date", time>>,
              <<"X-Amz-Signature", <<url[2], url[4][2], region, time>> >> >>

\* variant: the signed URL is returned as it is
StripSchemeKept(str) == str

\* signedUrl.toString().substring('https://'.length)
StripScheme(str) == Tail(str)

generateDbConnectAdminAuthToken(host, region, action, time) ==
    StripScheme(SignerSign(UnsignedUrl(host, action), region, time))

\* ------------------------------------------------------------------ origin
Origin(host, password) ==
    [scheme |-> "postgres", database |-> "postgres", user |-> "admin",
     host |-> host, port |-> PostgresPort, password |-> password]

StaleOrigin ==
    Origin(StaleHost,
           generateDbConnectAdminAuthToken(StaleHost, "us-east-1", "DbConnectAdmin", 0))

\* ------------------------------------------------------------------- state
VARIABLES
    handler,          \* which scheduled handler is deployed
    remote,           \* the Hyperdrive configs of the account, in list order
    now,              \* the clock; it advances when a cron invocation starts
    pc,               \* per invocation: where the handler is
    failure,          \* per invocation: which phase rejected ("none" if none)
    cursor,           \* per invocation: configs yielded by the listing so far
    existingConfigs,  \* part_001: name -> id of the listed config (0: undefined)
    found,            \* index.ts: endpoints whose foundPrimary/foundSecondary is true
    cur,              \* index.ts: the endpoint whose block is executing (0: none)
    tokenSt,          \* per invocation and endpoint: state of the token promise
    tokens,           \* per invocation and endpoint: the token the promise holds
    calls,            \* per invocation: create/edit requests issued, in order
    before,           \* history: remote and pc when the invocation started
    solo,             \* history: no other writer was active during this one
    httpStatus,       \* status of the last Response of fetch (0: no request yet)
    removed,          \* ids of configs deleted by someone else on the account
    skipped           \* history: per invocation, ids gone when its listing passed

vars == << handler, remote, now, pc, failure, cursor, existingConfigs, found,
           cur, tokenSt, tokens, calls, before, solo, httpStatus, removed,
           skipped >>

AllNames ==
    {ConfigName(h, i) : h \in Handlers, i \in EndpointIds} \cup {ForeignName}

\* names a stored config may carry when handler h is deployed
NamePool(h) == {ConfigName(h, i) : i \in EndpointIds} \cup {ForeignName}

NoToken == << >>

RECURSIVE SeqsUpTo(_, _)
SeqsUpTo(S, n) ==
    IF n = 0 THEN {<< >>}
    ELSE LET shorter == SeqsUpTo(S, n - 1)
         IN  shorter \cup {Append(s, x) : s \in {t \in shorter : Len(t) = n - 1}, x \in S}

\* configs stored before the first invocation: ids in list order, a stale origin
InitialRemote(names) ==
    [k \in 1..Len(names) |-> [id |-> k, name |-> names[k], origin |-> StaleOrigin]]

Final == {"done", "failed"}

\* ids the service can have handed out: the initial configs and one per create
ConfigIds == 1..(MaxInitial + MaxRuns * Cardinality(EndpointIds))

\* an invocation issues at most one request per endpoint
CallSlots == 1..Cardinality(EndpointIds)

InFlight(r) == {k \in 1..Len(calls[r]) : calls[r][k].st = "inflight"}

\* an invocation that can still change the remote state
Active(r) == pc[r] # "idle" /\ (pc[r] \notin Final \/ InFlight(r) # {})

Init ==
    /\ handler \in Handlers
    /\ \E names \in SeqsUpTo(NamePool(handler), MaxInitial) :
           remote = InitialRemote(names)
    /\ now = 0
    /\ pc = [r \in Runs |-> "idle"]
    /\ failure = [r \in Runs |-> "none"]
    /\ cursor = [r \in Runs |-> 0]
    /\ existingConfigs = [r \in Runs |-> [n \in AllNames |-> 0]]
    /\ found = [r \in Runs |-> {}]
    /\ cur = [r \in Runs |-> 0]
    /\ tokenSt = [r \in Runs |-> [i \in EndpointIds |-> "none"]]
    /\ tokens = [r \in Runs |-> [i \in EndpointIds |-> NoToken]]
    /\ calls = [r \in Runs |-> << >>]
    /\ before = [r \in Runs |-> [remote |-> << >>, pc |-> [q \in Runs |-> "idle"]]]
    /\ solo = [r \in Runs |-> FALSE]
    /\ httpStatus = 0
    /\ removed = {}
    /\ skipped = [r \in Runs |-> {}]

\* ------------------------------------------------- remote configuration API
\* client.hyperdrive.configs.create: the service stores a new config under a
\* fresh id; it does not look at the names it already holds
RemoteCreate(cfgs, name, origin) ==
    Append(cfgs, [id |-> Len(cfgs) + 1, name |-> name, origin |-> origin])

\* client.hyperdrive.configs.edit(id, {origin}): the origin of that config
RemoteEdit(cfgs, id, origin) ==
    [k \in 1..Len(cfgs) |->
        IF cfgs[k].id = id THEN [cfgs[k] EXCEPT !.origin = origin] ELSE cfgs[k]]

HasId(cfgs, id) == \E k \in 1..Len(cfgs) : cfgs[k].id = id

\* the edit is a PATCH of the config: the fields the request carries replace
\* the stored ones, a field it does not carry ("" for the name) is kept
RemotePatch(cfgs, req) ==
    LET edited == RemoteEdit(cfgs, req.id, req.origin)
    IN  [k \in 1..Len(edited) |->
            IF edited[k].id = req.id /\ req.name # ""
            THEN [edited[k] EXCEPT !.name = req.name]
            ELSE edited[k]]

\* ------------------------------------------------------------ upsertConfig
\* variant: the existingConfig argument is ignored and a create is always issued
upsertConfigAlwaysCreate(h, i, existingId, password) ==
    [ep |-> i, kind |-> "create", id |-> 0, name |-> ConfigName(h, i),
     origin |-> Origin(EndpointHost(i), password), st |-> "inflight"]

\* variant: the name is looked up again in the live remote state before the
\* request is chosen
upsertConfigRecheck(h, i, existingId, password) ==
    LET live == {k \in 1..Len(remote) : remote[k].name = ConfigName(h, i)}
    IN  IF existingId # 0 \/ live # {}
        THEN [ep |-> i, kind |-> "edit",
              id |-> IF existingId # 0 THEN existingId
                     ELSE remote[CHOOSE k \in live : TRUE].id,
              name |-> "",
              origin |-> Origin(EndpointHost(i), password), st |-> "inflight"]
        ELSE [ep |-> i, kind |-> "create", id |-> 0, name |-> ConfigName(h, i),
              origin |-> Origin(EndpointHost(i), password), st |-> "inflight"]

\* variant: the edit request carries the endpoint's host as name
upsertConfigEditNamed(h, i, existingId, password) ==
    IF existingId # 0
    THEN [ep |-> i, kind |-> "edit", id |-> existingId, name |-> EndpointHost(i),
          origin |-> Origin(EndpointHost(i), password), st |-> "inflight"]
    ELSE [ep |-> i, kind |-> "create", id |-> 0, name |-> ConfigName(h, i),
          origin |-> Origin(EndpointHost(i), password), st |-> "inflight"]

\* variant: the request is chosen from what the account holds when
\* upsertConfig runs, not from the listing
upsertConfigLive(h, i, existingId, password) ==
    LET live == {k \in 1..Len(remote) :
                    remote[k].name = ConfigName(h, i) /\ remote[k].id \notin removed}
    IN  IF live # {}
        THEN [ep |-> i, kind |-> "edit",
              id |-> remote[CHOOSE k \in live : \A j \in live : k >= j].id,
              name |-> "",
              origin |-> Origin(EndpointHost(i), password), st |-> "inflight"]
        ELSE [ep |-> i, kind |-> "create", id |-> 0, name |-> ConfigName(h, i),
              origin |-> Origin(EndpointHost(i), password), st |-> "inflight"]

\* the request upsertConfig issues: an edit against existingConfig.id when
\* existingConfig is truthy, a create under endpoint.configName otherwise
upsertConfig(h, i, existingId, password) ==
    IF existingId # 0
    THEN [ep |-> i, kind |-> "edit", id |-> existingId, name |-> "",
          origin |-> Origin(EndpointHost(i), password), st |-> "inflight"]
    ELSE [ep |-> i, kind |-> "create", id |-> 0, name |-> ConfigName(h, i),
          origin |-> Origin(EndpointHost(i), password), st |-> "inflight"]

\* index.ts: the create issued in the !foundPrimary / !foundSecondary block
IndexCreate(h, i, password) ==
    [ep |-> i, kind |-> "create", id |-> 0, name |-> ConfigName(h, i),
     origin |-> Origin(EndpointHost(i), password), st |-> "inflight"]

\* the configs the account holds: what was stored and not deleted since
Stored == SelectSeq(remote, LAMBDA c : c.id \notin removed)

\* ------------------------------------------------------ history bookkeeping
StartHistory(r) ==
    /\ before' = [before EXCEPT ![r] = [remote |-> Stored, pc |-> pc]]
    /\ solo' = [q \in Runs |->
                  IF q = r THEN \A o \in Runs \ {r} : ~Active(o)
                  ELSE IF Active(q) THEN FALSE ELSE solo[q]]

\* cron invocations are numbered in the order they start
MayStart(r) ==
    /\ pc[r] = "idle"
    /\ \A q \in Runs : q < r => pc[q] # "idle"

\* ----------------------------------------- scheduled (src/unnamed/part_001)
\* entry: tokenPromises = endpoints.map(generateDbConnectAdminAuthToken ...),
\* then the listing starts
Scheduled(r) ==
    /\ handler = "part_001"
    /\ MayStart(r)
    /\ now' = now + 1
    /\ tokens' = [tokens EXCEPT ![r] = [i \in EndpointIds |->
          generateDbConnectAdminAuthToken(EndpointHost(i), EndpointRegion(i),
                                          "DbConnectAdmin", now')]]
    /\ tokenSt' = [tokenSt EXCEPT ![r] = [i \in EndpointIds |-> "pending"]]
    /\ pc' = [pc EXCEPT ![r] = "listing"]
    /\ StartHistory(r)
    /\ UNCHANGED << httpStatus, removed, skipped >>
    /\ UNCHANGED << handler, remote, failure, cursor, existingConfigs, found,
                    cur, calls >>

\* a token promise settles: signer.sign() resolved or rejected
SignResolve(r, i) ==
    /\ handler = "part_001"
    /\ pc[r] \in {"listing", "joinTokens"}
    /\ tokenSt[r][i] = "pending"
    /\ tokenSt' = [tokenSt EXCEPT ![r][i] = "ok"]
    /\ UNCHANGED << httpStatus, removed, skipped >>
    /\ UNCHANGED << handler, remote, now, pc, failure, cursor, existingConfigs,
                    found, cur, tokens, calls, before, solo >>

SignReject(r, i) ==
    /\ handler = "part_001"
    /\ pc[r] \in {"listing", "joinTokens"}
    /\ tokenSt[r][i] = "pending"
    /\ tokenSt' = [tokenSt EXCEPT ![r][i] = "failed"]
    /\ UNCHANGED << httpStatus, removed, skipped >>
    /\ UNCHANGED << handler, remote, now, pc, failure, cursor, existingConfigs,
                    found, cur, tokens, calls, before, solo >>

\* variant: the loop body does not store the config it was handed
ListNextNoIndex(r) ==
    /\ handler = "part_001"
    /\ pc[r] = "listing"
    /\ cursor[r] < Len(remote)
    /\ cursor' = [cursor EXCEPT ![r] = @ + 1]
    /\ UNCHANGED << httpStatus, removed, skipped >>
    /\ UNCHANGED << handler, remote, now, pc, failure, existingConfigs, found,
                    cur, tokenSt, tokens, calls, before, solo >>

\* variant: the loop keeps the first config it was handed under each name
ListNextKeepFirst(r) ==
    /\ handler = "part_001"
    /\ pc[r] = "listing"
    /\ cursor[r] < Len(remote)
    /\ LET config == remote[cursor[r] + 1]
       IN  existingConfigs' =
               IF existingConfigs[r][config.name] = 0
               THEN [existingConfigs EXCEPT ![r][config.name] = config.id]
               ELSE existingConfigs
    /\ cursor' = [cursor EXCEPT ![r] = @ + 1]
    /\ UNCHANGED << httpStatus, removed, skipped >>
    /\ UNCHANGED << handler, remote, now, pc, failure, found, cur, tokenSt,
                    tokens, calls, before, solo >>

\* variant: the loop keeps the config it was handed under every key
ListNextOneSlot(r) ==
    /\ handler = "part_001"
    /\ pc[r] = "listing"
    /\ cursor[r] < Len(remote)
    /\ LET config == remote[cursor[r] + 1]
       IN  existingConfigs' =
               [existingConfigs EXCEPT ![r] = [n \in AllNames |-> config.id]]
    /\ cursor' = [cursor EXCEPT ![r] = @ + 1]
    /\ UNCHANGED << httpStatus, removed, skipped >>
    /\ UNCHANGED << handler, remote, now, pc, failure, found, cur, tokenSt,
                    tokens, calls, before, solo >>

\* one turn of  for await (const config of client.hyperdrive.configs.list())
\*   existingConfigs[config.name] = config
ListNext(r) ==
    /\ handler = "part_001"
    /\ pc[r] = "listing"
    /\ cursor[r] < Len(remote)
    /\ LET config == remote[cursor[r] + 1]
       IN  IF config.id \in removed
           THEN /\ skipped' = [skipped EXCEPT ![r] = @ \cup {config.id}]
                /\ UNCHANGED existingConfigs
           ELSE /\ existingConfigs' =
                      [existingConfigs EXCEPT ![r][config.name] = config.id]
                /\ UNCHANGED skipped
    /\ cursor' = [cursor EXCEPT ![r] = @ + 1]
    /\ UNCHANGED << httpStatus, removed >>
    /\ UNCHANGED << handler, remote, now, pc, failure, found, cur, tokenSt,
                    tokens, calls, before, solo >>

\* the enumeration is exhausted: on to  await Promise.all(tokenPromises)
ListEnd(r) ==
    /\ handler = "part_001"
    /\ pc[r] = "listing"
    /\ cursor[r] = Len(remote)
    /\ pc' = [pc EXCEPT ![r] = "joinTokens"]
    /\ UNCHANGED << httpStatus, removed, skipped >>
    /\ UNCHANGED << handler, remote, now, failure, cursor, existingConfigs,
                    found, cur, tokenSt, tokens, calls, before, solo >>

\* variant: the error of the enumeration is swallowed and the handler goes on
ListFailSwallowed(r) ==
    /\ handler = "part_001"
    /\ pc[r] = "listing"
    /\ pc' = [pc EXCEPT ![r] = "joinTokens"]
    /\ failure' = [failure EXCEPT ![r] = "list"]
    /\ UNCHANGED << httpStatus, removed, skipped >>
    /\ UNCHANGED << handler, remote, now, cursor, existingConfigs, found, cur,
                    tokenSt, tokens, calls, before, solo >>

\* the enumeration throws: the handler rejects
ListFail(r) ==
    /\ handler = "part_001"
    /\ pc[r] = "listing"
    /\ pc' = [pc EXCEPT ![r] = "failed"]
    /\ failure' = [failure EXCEPT ![r] = "list"]
    /\ UNCHANGED << httpStatus, removed, skipped >>
    /\ UNCHANGED << handler, remote, now, cursor, existingConfigs, found, cur,
                    tokenSt, tokens, calls, before, solo >>

\* await Promise.all(tokenPromises) rejects as soon as one promise rejected
JoinReject(r) ==
    /\ handler = "part_001"
    /\ pc[r] = "joinTokens"
    /\ \E i \in EndpointIds : tokenSt[r][i] = "failed"
    /\ pc' = [pc EXCEPT ![r] = "failed"]
    /\ failure' = [failure EXCEPT ![r] = "sign"]
    /\ UNCHANGED << httpStatus, removed, skipped >>
    /\ UNCHANGED << handler, remote, now, cursor, existingConfigs, found, cur,
                    tokenSt, tokens, calls, before, solo >>

\* variant: the token of the other list position is passed
UpsertRequestsSwapped(r) ==
    [i \in 1..Cardinality(EndpointIds) |->
        upsertConfig(handler, i, existingConfigs[r][ConfigName(handler, i)],
                     tokens[r][Cardinality(EndpointIds) + 1 - i])]

\* the requests of  endpoints.map((ep, index) => upsertConfig(..., ep,
\* existingConfigs[ep.configName], tokens[index])), in endpoint order
UpsertRequests(r) ==
    [i \in 1..Cardinality(EndpointIds) |->
        upsertConfig(handler, i, existingConfigs[r][ConfigName(handler, i)],
                     tokens[r][i])]

\* every token resolved: all upsertConfig calls start, each up to its request
UpsertAll(r) ==
    /\ handler = "part_001"
    /\ pc[r] = "joinTokens"
    /\ \A i \in EndpointIds : tokenSt[r][i] = "ok"
    /\ calls' = [calls EXCEPT ![r] = @ \o UpsertRequests(r)]
    /\ pc' = [pc EXCEPT ![r] = "upserting"]
    /\ UNCHANGED << httpStatus, removed, skipped >>
    /\ UNCHANGED << handler, remote, now, failure, cursor, existingConfigs,
                    found, cur, tokenSt, tokens, before, solo >>

\* await Promise.all(upserts) after request k of r was answered: rejected by
\* the first failure, fulfilled once every request succeeded
JoinUpserts(r, cs) ==
    IF pc[r] # "upserting" THEN [p |-> pc[r], f |-> failure[r]]
    ELSE IF \E k \in 1..Len(cs) : cs[k].st = "failed"
         THEN [p |-> "failed", f |-> "upsert"]
    ELSE IF \A k \in 1..Len(cs) : cs[k].st = "ok"
         THEN [p |-> "done", f |-> failure[r]]
    ELSE [p |-> pc[r], f |-> failure[r]]

\* ------------------------------------------------ scheduled (src/src/index.ts)
IdxScheduled(r) ==
    /\ handler = "index.ts"
    /\ MayStart(r)
    /\ now' = now + 1
    /\ pc' = [pc EXCEPT ![r] = "listing"]
    /\ StartHistory(r)
    /\ UNCHANGED << httpStatus, removed, skipped >>
    /\ UNCHANGED << handler, remote, failure, cursor, existingConfigs, found,
                    cur, tokenSt, tokens, calls >>

\* variant: the loop does not set the found flags
IdxListNextNoFlag(r) ==
    /\ handler = "index.ts"
    /\ pc[r] = "listing"
    /\ cursor[r] < Len(remote)
    /\ cursor' = [cursor EXCEPT ![r] = @ + 1]
    /\ UNCHANGED << httpStatus, removed, skipped >>
    /\ UNCHANGED << handler, remote, now, pc, failure, existingConfigs, found,
                    cur, tokenSt, tokens, calls, before, solo >>

\* one turn of the for await loop: foundPrimary / foundSecondary
IdxListNext(r) ==
    /\ handler = "index.ts"
    /\ pc[r] = "listing"
    /\ cursor[r] < Len(remote)
    /\ LET config == remote[cursor[r] + 1]
       IN  IF config.id \in removed
           THEN /\ skipped' = [skipped EXCEPT ![r] = @ \cup {config.id}]
                /\ UNCHANGED found
           ELSE /\ found' = [found EXCEPT ![r] =
                        @ \cup {i \in EndpointIds : config.name = ConfigName(handler, i)}]
                /\ UNCHANGED skipped
    /\ cursor' = [cursor EXCEPT ![r] = @ + 1]
    /\ UNCHANGED << httpStatus, removed >>
    /\ UNCHANGED << handler, remote, now, pc, failure, existingConfigs, cur,
                    tokenSt, tokens, calls, before, solo >>

\* control reaches the block of the first endpoint at or after `from` whose
\* found flag is false and starts its token generation; with none left the
\* handler returns
IdxEnter(r, from) ==
    LET missing == {i \in EndpointIds : i >= from /\ i \notin found[r]}
    IN  IF missing = {}
        THEN /\ pc' = [pc EXCEPT ![r] = "done"]
             /\ cur' = [cur EXCEPT ![r] = 0]
             /\ UNCHANGED << tokens, tokenSt >>
        ELSE LET j == CHOOSE i \in missing : \A o \in missing : i <= o
             IN  /\ pc' = [pc EXCEPT ![r] = "signing"]
                 /\ cur' = [cur EXCEPT ![r] = j]
                 /\ tokens' = [tokens EXCEPT ![r][j] =
                       generateDbConnectAdminAuthToken(EndpointHost(j),
                           EndpointRegion(j), "DbConnectAdmin", now)]
                 /\ tokenSt' = [tokenSt EXCEPT ![r][j] = "pending"]

IdxListEnd(r) ==
    /\ handler = "index.ts"
    /\ pc[r] = "listing"
    /\ cursor[r] = Len(remote)
    /\ IdxEnter(r, 1)
    /\ UNCHANGED << httpStatus, removed, skipped >>
    /\ UNCHANGED << handler, remote, now, failure, cursor, existingConfigs,
                    found, calls, before, solo >>

IdxListFail(r) ==
    /\ handler = "index.ts"
    /\ pc[r] = "listing"
    /\ pc' = [pc EXCEPT ![r] = "failed"]
    /\ failure' = [failure EXCEPT ![r] = "list"]
    /\ UNCHANGED << httpStatus, removed, skipped >>
    /\ UNCHANGED << handler, remote, now, cursor, existingConfigs, found, cur,
                    tokenSt, tokens, calls, before, solo >>

\* the awaited token arrives and the create of the same block is issued
IdxSignResolve(r) ==
    /\ handler = "index.ts"
    /\ pc[r] = "signing"
    /\ tokenSt' = [tokenSt EXCEPT ![r][cur[r]] = "ok"]
    /\ calls' = [calls EXCEPT ![r] =
                    Append(@, IndexCreate(handler, cur[r], tokens[r][cur[r]]))]
    /\ pc' = [pc EXCEPT ![r] = "creating"]
    /\ UNCHANGED << httpStatus, removed, skipped >>
    /\ UNCHANGED << handler, remote, now, failure, cursor, existingConfigs,
                    found, cur, tokens, before, solo >>

IdxSignReject(r) ==
    /\ handler = "index.ts"
    /\ pc[r] = "signing"
    /\ tokenSt' = [tokenSt EXCEPT ![r][cur[r]] = "failed"]
    /\ pc' = [pc EXCEPT ![r] = "failed"]
    /\ failure' = [failure EXCEPT ![r] = "sign"]
    /\ UNCHANGED << httpStatus, removed, skipped >>
    /\ UNCHANGED << handler, remote, now, cursor, existingConfigs, found, cur,
                    tokens, calls, before, solo >>

\* --------------------------------------------- answers of the remote service
\* what the handler does once request k of r has been answered
AfterAnswer(r, k, ok) ==
    IF handler = "part_001"
    THEN /\ pc' = [pc EXCEPT ![r] = JoinUpserts(r, calls'[r]).p]
         /\ failure' = [failure EXCEPT ![r] = JoinUpserts(r, calls'[r]).f]
         /\ UNCHANGED << cur, tokens, tokenSt >>
    ELSE IF ok
         THEN IdxEnter(r, cur[r] + 1) /\ UNCHANGED failure
         ELSE /\ pc' = [pc EXCEPT ![r] = "failed"]
              /\ failure' = [failure EXCEPT ![r] = "upsert"]
              /\ UNCHANGED << cur, tokens, tokenSt >>

CreateOk(r, k) ==
    /\ k \in InFlight(r)
    /\ calls[r][k].kind = "create"
    /\ remote' = RemoteCreate(remote, calls[r][k].name, calls[r][k].origin)
    /\ calls' = [calls EXCEPT ![r][k].st = "ok", ![r][k].id = Len(remote) + 1]
    /\ AfterAnswer(r, k, TRUE)
    /\ UNCHANGED << httpStatus, removed, skipped >>
    /\ UNCHANGED << handler, now, cursor, existingConfigs, found, before, solo >>

EditOk(r, k) ==
    /\ k \in InFlight(r)
    /\ calls[r][k].kind = "edit"
    /\ HasId(remote, calls[r][k].id)
    /\ calls[r][k].id \notin removed
    /\ remote' = RemotePatch(remote, calls[r][k])
    /\ calls' = [calls EXCEPT ![r][k].st = "ok"]
    /\ AfterAnswer(r, k, TRUE)
    /\ UNCHANGED << httpStatus, removed, skipped >>
    /\ UNCHANGED << handler, now, cursor, existingConfigs, found, before, solo >>

\* variant: a failed request is sent again and the handler keeps waiting
CallFailRetry(r, k) ==
    /\ k \in InFlight(r)
    /\ calls' = [calls EXCEPT ![r] =
                    Append([@ EXCEPT ![k].st = "failed"], calls[r][k])]
    /\ UNCHANGED << httpStatus, removed, skipped >>
    /\ UNCHANGED << handler, remote, now, pc, failure, cursor, existingConfigs,
                    found, cur, tokenSt, tokens, before, solo >>

\* the request fails (transport or API error): the remote state is untouched
CallFail(r, k) ==
    /\ k \in InFlight(r)
    /\ calls' = [calls EXCEPT ![r][k].st = "failed"]
    /\ AfterAnswer(r, k, FALSE)
    /\ UNCHANGED << httpStatus, removed, skipped >>
    /\ UNCHANGED << handler, remote, now, cursor, existingConfigs, found,
                    before, solo >>

\* ------------------------------------------------------------------- fetch
\* variant: the request is answered with an empty 200
FetchAccepts ==
    /\ httpStatus' = 200
    /\ UNCHANGED << handler, remote, now, pc, failure, cursor, existingConfigs,
                    found, cur, tokenSt, tokens, calls, before, solo, removed,
                    skipped >>

\* async fetch(req) { return new Response(null, { status: 404 }) }
Fetch ==
    /\ httpStatus' = NotFound
    /\ UNCHANGED << handler, remote, now, pc, failure, cursor, existingConfigs,
                    found, cur, tokenSt, tokens, calls, before, solo, removed,
                    skipped >>

\* ------------------------------------------- another party on the account
\* somebody else (dashboard, API client) deletes a stored config; the
\* invocations started so far are no longer the only writers since their start
ExternalDelete(id) ==
    /\ Cardinality(removed) < MaxRemovals
    /\ HasId(remote, id)
    /\ id \notin removed
    /\ removed' = removed \cup {id}
    /\ solo' = [q \in Runs |-> IF pc[q] # "idle" THEN FALSE ELSE solo[q]]
    /\ UNCHANGED << handler, remote, now, pc, failure, cursor, existingConfigs,
                    found, cur, tokenSt, tokens, calls, before, httpStatus,
                    skipped >>

\* a step of some cron invocation, or an answer to one of its requests
RunStep ==
    \E r \in Runs :
        \/ Scheduled(r)
        \/ \E i \in EndpointIds : SignResolve(r, i) \/ SignReject(r, i)
        \/ ListNext(r)
        \/ ListEnd(r)
        \/ ListFail(r)
        \/ JoinReject(r)
        \/ UpsertAll(r)
        \/ IdxScheduled(r)
        \/ IdxListNext(r)
        \/ IdxListEnd(r)
        \/ IdxListFail(r)
        \/ IdxSignResolve(r)
        \/ IdxSignReject(r)
        \/ \E k \in CallSlots : CreateOk(r, k) \/ EditOk(r, k) \/ CallFail(r, k)

\* the worker on an account nobody else writes to
Next == Fetch \/ RunStep

Spec == Init /\ [][Next]_vars

\* the cron invocations on an account where somebody else deletes configs
NextShared == RunStep \/ \E id \in ConfigIds : ExternalDelete(id)

SpecShared == Init /\ [][NextShared]_vars

\* ------------------------------------------------------ vocabulary of claims
Started(r) == pc[r] # "idle"

\* r is the invocation that started last
Latest(r) == Started(r) /\ \A q \in Runs : q > r => ~Started(q)

\* the enumeration of r ran to its end
ListingComplete(r) == pc[r] \notin {"idle", "listing"} /\ failure[r] # "list"

\* configs the enumeration of r has yielded (the service keeps list order and
\* never renames a config)
Listed(r) == {k \in 1..cursor[r] : remote[k].id \notin skipped[r]}
ListedIds(r, name) == {remote[k].id : k \in {j \in Listed(r) : remote[j].name = name}}
ListedNames(r) == {remote[k].name : k \in Listed(r)}

\* nobody but the invocations has changed the account
Undisturbed == removed = {}

Calls(r, i, kind) ==
    {k \in 1..Len(calls[r]) : calls[r][k].ep = i /\ calls[r][k].kind = kind}

\* the handler of r has reached the point where it sends the request of
\* endpoint i
Reached(r, i) ==
    /\ tokenSt[r][i] = "ok"
    /\ \/ handler = "index.ts"
       \/ pc[r] \in {"upserting", "done"}
       \/ failure[r] = "upsert"

NameSet(cfgs) == {cfgs[k].name : k \in 1..Len(cfgs)}
Named(cfgs, name) == {k \in 1..Len(cfgs) : cfgs[k].name = name}
UniqueNames(cfgs) == \A n \in NameSet(cfgs) : Cardinality(Named(cfgs, n)) = 1

\* the token signed for endpoint i at time t
TokenAt(i, t) ==
    generateDbConnectAdminAuthToken(EndpointHost(i), EndpointRegion(i), "DbConnectAdmin", t)

\* ------------------------------------------------------------------- claims

\* C1: for a single scheduled run with no other writer that starts from a
\* remote state with at most one config per name, every state during and after
\* the run holds at most one config per name; and no run issues a create for an
\* endpoint whose configName its listing yielded.
C1_NoDuplicate ==
    \A r \in Runs :
        /\ (Latest(r) /\ solo[r] /\ UniqueNames(before[r].remote))
               => UniqueNames(Stored)
        /\ \A i \in EndpointIds :
               ConfigName(handler, i) \in ListedNames(r) => Calls(r, i, "create") = {}

\* a solo run that listed one of its names, created the other and is over
C1_Witness ==
    \E r \in Runs :
        /\ Latest(r) /\ solo[r] /\ UniqueNames(before[r].remote)
        /\ pc[r] = "done" /\ handler = "part_001"
        /\ ConfigName(handler, 1) \in ListedNames(r)
        /\ \E k \in Calls(r, 2, "create") : calls[r][k].st = "ok"
        /\ \E k \in Calls(r, 1, "edit") : calls[r][k].st = "ok"

\* C2: when a run's listing yielded a config named like endpoint i, the run
\* issues exactly one edit for i, against a listed id of that name, and no
\* create; the origin it sends has the endpoint's host and the token generated
\* in this run as password.  Stated for a run that completed.
C2_ListedMeansOneEdit ==
    \A r \in Runs : \A i \in EndpointIds :
        (pc[r] = "done" /\ ConfigName(handler, i) \in ListedNames(r))
            => /\ Cardinality(Calls(r, i, "edit")) = 1
               /\ Calls(r, i, "create") = {}
               /\ \A k \in Calls(r, i, "edit") :
                     /\ calls[r][k].id \in ListedIds(r, ConfigName(handler, i))
                     /\ calls[r][k].origin.host = EndpointHost(i)
                     /\ tokenSt[r][i] = "ok"
                     /\ calls[r][k].origin.password = tokens[r][i]

\* the same statement for the handler of src/unnamed/part_001 alone (and, with
\* it, src/unnamed/part_000); the password is the token signed at the start of
\* this run and differs from every password stored before the run
C2_Part001 ==
    \A r \in Runs : \A i \in EndpointIds :
        (handler = "part_001" /\ ListingComplete(r)
         /\ ConfigName(handler, i) \in ListedNames(r))
            => /\ Calls(r, i, "create") = {}
               /\ Cardinality(Calls(r, i, "edit")) <= 1
               /\ (pc[r] \in {"upserting", "done"} \/ failure[r] = "upsert")
                     => Cardinality(Calls(r, i, "edit")) = 1
               /\ \A k \in Calls(r, i, "edit") :
                     /\ calls[r][k].id \in ListedIds(r, ConfigName(handler, i))
                     /\ calls[r][k].origin.host = EndpointHost(i)
                     /\ calls[r][k].origin.password = tokens[r][i]
                     /\ \A j \in 1..Len(before[r].remote) :
                           before[r].remote[j].origin.password # tokens[r][i]

\* C3: when a run's listing ran to its end without yielding a config named
\* like endpoint i, the run issues no edit for i and at most one create, which
\* carries the configName and the full origin (the endpoint's host, the token
\* generated in this run); a run that completes, or that got as far as the
\* upsert of i, has issued exactly one.
C3_UnlistedMeansOneCreate ==
    \A r \in Runs : \A i \in EndpointIds :
        (ListingComplete(r) /\ ConfigName(handler, i) \notin ListedNames(r))
            => /\ Calls(r, i, "edit") = {}
               /\ Cardinality(Calls(r, i, "create")) <= 1
               /\ (pc[r] = "done" \/ Reached(r, i))
                     => Cardinality(Calls(r, i, "create")) = 1
               /\ \A k \in Calls(r, i, "create") :
                     /\ calls[r][k].name = ConfigName(handler, i)
                     /\ tokenSt[r][i] = "ok"
                     /\ tokens[r][i] # NoToken
                     /\ calls[r][k].origin = Origin(EndpointHost(i), tokens[r][i])
                     /\ \E t \in 1..now : tokens[r][i] = TokenAt(i, t)

\* a completed run that did not list endpoint 2's name and created it
C3_Witness ==
    \E r \in Runs :
        /\ pc[r] = "done"
        /\ ConfigName(handler, 2) \notin ListedNames(r)
        /\ \E k \in Calls(r, 2, "create") :
              /\ calls[r][k].st = "ok"
              /\ \E j \in 1..Len(Stored) :
                    /\ Stored[j].id = calls[r][k].id
                    /\ Stored[j].name = ConfigName(handler, 2)

\* C4: a run that starts after another run has completed successfully issues
\* no create (only edits), and the set of remote config names stays what it
\* was when that run started.
C4_SecondRunOnlyEdits ==
    \A r \in Runs :
        (Started(r) /\ Undisturbed /\ \E q \in Runs : before[r].pc[q] = "done")
            => /\ \A k \in 1..Len(calls[r]) : calls[r][k].kind = "edit"
               /\ NameSet(Stored) = NameSet(before[r].remote)

\* the second run of part_001 completed with one successful edit per endpoint,
\* after a first run that had to create a config
C4_Witness ==
    \E r \in Runs :
        /\ \E q \in Runs : before[r].pc[q] = "done" /\ Calls(q, 1, "create") # {}
        /\ pc[r] = "done"
        /\ \A i \in EndpointIds : \E k \in Calls(r, i, "edit") : calls[r][k].st = "ok"

\* C5: when the enumeration fails, before or after some configs were yielded,
\* the run issues no create and no edit, ends as failed, and (with no other
\* run active) leaves the remote state as it was when the run started.
C5_ListFailureStopsRun ==
    \A r \in Runs :
        failure[r] = "list"
            => /\ calls[r] = << >>
               /\ pc[r] = "failed"
               /\ (Latest(r) /\ solo[r]) => Stored = before[r].remote

\* the enumeration failed after it had yielded a config
C5_Witness ==
    \E r \in Runs : failure[r] = "list" /\ cursor[r] > 0 /\ pc[r] = "failed"

\* C6: no create or edit begins before the enumeration of the run has been
\* consumed to its end and the token of every endpoint has been generated.
C6_CallsAfterListingAndAllTokens ==
    \A r \in Runs :
        calls[r] # << >>
            => /\ ListingComplete(r)
               /\ \A i \in EndpointIds : tokenSt[r][i] = "ok"

\* the same statement for the handler of src/unnamed/part_001 alone
C6_Part001 ==
    handler = "part_001" => C6_CallsAfterListingAndAllTokens

\* part_001: the listing can end while a token is pending, and the tokens can
\* all be there while the listing is still running
C6_ListingFirst ==
    \E r \in Runs : pc[r] = "joinTokens" /\ \E i \in EndpointIds : tokenSt[r][i] = "pending"
C6_TokensFirst ==
    \E r \in Runs : pc[r] = "listing" /\ \A i \in EndpointIds : tokenSt[r][i] = "ok"

\* C7: when two runs both finish their listing without a config named like
\* endpoint i and both reach its upsert, both issue a create for it, whatever
\* the remote state holds by then; when both creates succeed the remote state
\* holds two configs of that name.
C7_OverlappingRunsBothCreate ==
    \A r1 \in Runs : \A r2 \in Runs \ {r1} : \A i \in EndpointIds :
        ( /\ ListingComplete(r1) /\ ConfigName(handler, i) \notin ListedNames(r1)
          /\ ListingComplete(r2) /\ ConfigName(handler, i) \notin ListedNames(r2)
          /\ Reached(r1, i) /\ Reached(r2, i) )
            => /\ Calls(r1, i, "create") # {} /\ Calls(r2, i, "create") # {}
               /\ ( /\ Undisturbed
                    /\ \A k \in Calls(r1, i, "create") : calls[r1][k].st = "ok"
                    /\ \A k \in Calls(r2, i, "create") : calls[r2][k].st = "ok" )
                     => Cardinality(Named(Stored, ConfigName(handler, i))) >= 2

\* two overlapping runs of part_001 each created a config for endpoint 1 and
\* the remote state holds both
C7_Witness ==
    /\ handler = "part_001"
    /\ \E r1 \in Runs : \E r2 \in Runs \ {r1} :
          /\ ~solo[r1] /\ ~solo[r2]
          /\ \E k1 \in Calls(r1, 1, "create") : \E k2 \in Calls(r2, 1, "create") :
                /\ calls[r1][k1].st = "ok" /\ calls[r2][k2].st = "ok"
                /\ calls[r1][k1].id # calls[r2][k2].id
    /\ Cardinality(Named(Stored, ConfigName(handler, 1))) = 2

\* C8: a run that rejects because one endpoint's create/edit failed has
\* nevertheless issued the request of every other endpoint that needed one.
C8_FailureDoesNotBlockOthers ==
    \A r \in Runs :
        failure[r] = "upsert"
            => \A j \in EndpointIds \ found[r] : \E k \in 1..Len(calls[r]) : calls[r][k].ep = j

\* the same statement for the handler of src/unnamed/part_001 alone
C8_Part001 ==
    handler = "part_001" => C8_FailureDoesNotBlockOthers

\* part_001: the run rejected on endpoint 1's request and endpoint 2's request
\* took effect all the same
C8_Part001Effect ==
    \E r \in Runs :
        /\ handler = "part_001" /\ failure[r] = "upsert"
        /\ \E k \in 1..Len(calls[r]) : calls[r][k].ep = 1 /\ calls[r][k].st = "failed"
        /\ \E k \in 1..Len(calls[r]) : calls[r][k].ep = 2 /\ calls[r][k].st = "ok"

\* C9: when the token generation of any endpoint fails, the run issues no
\* create and no edit for any endpoint.
C9_SignFailureMeansNoCalls ==
    \A r \in Runs :
        (\E i \in EndpointIds : tokenSt[r][i] = "failed") => calls[r] = << >>

\* the same statement for the handler of src/unnamed/part_001 alone, with the
\* end of the run
C9_Part001 ==
    \A r \in Runs :
        (handler = "part_001" /\ \E i \in EndpointIds : tokenSt[r][i] = "failed")
            => /\ calls[r] = << >>
               /\ pc[r] \in {"listing", "joinTokens", "failed"}
               /\ (Latest(r) /\ solo[r]) => Stored = before[r].remote

\* some endpoints of q were created or edited, others were not
PartWay(q) ==
    /\ \E k \in 1..Len(calls[q]) : calls[q][k].st = "ok"
    /\ \E i \in EndpointIds : \A k \in 1..Len(calls[q]) :
          calls[q][k].ep = i => calls[q][k].st # "ok"

\* every endpoint has a config of its name with the endpoint's host and the
\* token run r generated for it
Converged(r) ==
    \A i \in EndpointIds : \E k \in 1..Len(Stored) :
        /\ Stored[k].name = ConfigName(handler, i)
        /\ Stored[k].origin.host = EndpointHost(i)
        /\ tokenSt[r][i] = "ok"
        /\ Stored[k].origin.password = tokens[r][i]

\* C10: after a run that failed part-way, a following run that completes
\* without failure and without interference leaves every endpoint with a
\* config of its name that carries the endpoint's host and the token generated
\* in that following run.
C10_NextRunConverges ==
    \A r \in Runs :
        ( /\ pc[r] = "done" /\ Latest(r) /\ solo[r]
          /\ \E q \in Runs : before[r].pc[q] = "failed" /\ PartWay(q) )
            => Converged(r)

\* the same statement for the handler of src/unnamed/part_001 alone, after any
\* failed run
C10_Part001 ==
    \A r \in Runs :
        ( /\ handler = "part_001"
          /\ pc[r] = "done" /\ Latest(r) /\ solo[r]
          /\ \E q \in Runs : before[r].pc[q] = "failed" )
            => Converged(r)

C10_Part001Witness ==
    \E r \in Runs :
        /\ handler = "part_001"
        /\ pc[r] = "done" /\ Latest(r) /\ solo[r]
        /\ \E q \in Runs : before[r].pc[q] = "failed" /\ PartWay(q)

\* the configNames the deployed handler reconciles
EndpointNames == {ConfigName(handler, i) : i \in EndpointIds}

\* C11: whatever the invocations have done since invocation r started, every
\* config the account held then is still there under the same id and name
\* (nothing is deleted, the ids only grow), and a config whose name is not an
\* endpoint's configName is exactly what it was: same id, name and origin.
C11_OnlyEndpointConfigsAreTouched ==
    \A r \in Runs :
        Started(r)
            => /\ Len(Stored) >= Len(before[r].remote)
               /\ \A k \in 1..Len(before[r].remote) :
                     /\ Stored[k].id = before[r].remote[k].id
                     /\ Stored[k].name = before[r].remote[k].name
                     /\ before[r].remote[k].name \notin EndpointNames
                           => Stored[k] = before[r].remote[k]
               /\ \A k \in 1..Len(calls[r]) :
                     calls[r][k].kind = "create" => calls[r][k].name \in EndpointNames

\* a run edited the config of endpoint 1 next to a config of a foreign name,
\* created the config of endpoint 2, and completed
C11_Witness ==
    \E r \in Runs :
        /\ pc[r] = "done"
        /\ \E k \in 1..Len(before[r].remote) :
              before[r].remote[k].name = ForeignName /\ Stored[k] = before[r].remote[k]
        /\ \E k \in Calls(r, 1, "edit") : calls[r][k].st = "ok"
        /\ \E k \in Calls(r, 2, "create") : calls[r][k].st = "ok"
        /\ Len(Stored) = Len(before[r].remote) + 1

\* request k of r is an edit that the service applies in this step
EditApplied(r, k) ==
    /\ k \in 1..Len(calls[r])
    /\ calls[r][k].kind = "edit"
    /\ calls[r][k].st = "inflight"
    /\ calls'[r][k].st = "ok"

\* C12: no edit request carries a name; when an edit is applied the account
\* holds the same configs under the same ids and names as before, the targeted
\* config has the origin of the request, and every other config is untouched.
C12_EditReplacesOnlyOrigin ==
    /\ [](\A r \in Runs : \A k \in 1..Len(calls[r]) :
             calls[r][k].kind = "edit" => calls[r][k].name = "")
    /\ [][\A r \in Runs : \A k \in CallSlots :
             EditApplied(r, k)
                 => /\ Len(remote') = Len(remote)
                    /\ \A j \in 1..Len(remote) :
                          /\ remote'[j].id = remote[j].id
                          /\ remote'[j].name = remote[j].name
                          /\ remote[j].id = calls[r][k].id
                                => remote'[j].origin = calls[r][k].origin
                          /\ remote[j].id # calls[r][k].id
                                => remote'[j] = remote[j]]_vars

\* an edit was applied: the config it targeted still has its id and the
\* endpoint's configName, and its origin is the one the request carried
C12_Witness ==
    \E r \in Runs : \E k \in Calls(r, 1, "edit") : \E j \in 1..Len(Stored) :
        /\ calls[r][k].st = "ok"
        /\ Stored[j].id = calls[r][k].id
        /\ Stored[j].name = ConfigName(handler, 1)
        /\ Stored[j].origin = calls[r][k].origin
        /\ Stored[j].origin # StaleOrigin

\* positions of the configs named name that the enumeration of r yielded
ListedAt(r, name) == {k \in Listed(r) : remote[k].name = name}

\* the id of the first / last config of that name in the enumeration of r
FirstListed(r, name) ==
    remote[CHOOSE k \in ListedAt(r, name) : \A j \in ListedAt(r, name) : k <= j].id
LastListed(r, name) ==
    remote[CHOOSE k \in ListedAt(r, name) : \A j \in ListedAt(r, name) : k >= j].id

\* the enumeration of r ran to its end and yielded several configs named like
\* endpoint i
ListedTwice(r, i) ==
    /\ ListingComplete(r)
    /\ Cardinality(ListedAt(r, ConfigName(handler, i))) > 1

\* C13 as stated: when the listing yielded more than one config named like
\* endpoint i, a run that gets to the upsert of i issues exactly one edit for
\* i, against the id that came first in the enumeration.
C13_FirstSeenWins ==
    \A r \in Runs : \A i \in EndpointIds :
        (ListedTwice(r, i) /\ Reached(r, i))
            => /\ Cardinality(Calls(r, i, "edit")) = 1
               /\ \A k \in Calls(r, i, "edit") :
                     calls[r][k].id = FirstListed(r, ConfigName(handler, i))

\* C13 amended: when the listing yielded more than one config named like
\* endpoint i, the run issues no create for i, and every edit it issues for i
\* goes against the id that came last in the enumeration; the upsert handler
\* (part_001) issues exactly one such edit once it gets to the upsert of i,
\* the handler of src/src/index.ts issues none.
C13_LastSeenWins ==
    \A r \in Runs : \A i \in EndpointIds :
        ListedTwice(r, i)
            => /\ Calls(r, i, "create") = {}
               /\ \A k \in Calls(r, i, "edit") :
                     calls[r][k].id = LastListed(r, ConfigName(handler, i))
               /\ (handler = "part_001" /\ Reached(r, i))
                     => Cardinality(Calls(r, i, "edit")) = 1
               /\ handler = "index.ts" => Calls(r, i, "edit") = {}

\* a run listed two configs named like endpoint 1 and its edit of the later
\* one was applied
C13_Witness ==
    \E r \in Runs :
        /\ ListedTwice(r, 1)
        /\ FirstListed(r, ConfigName(handler, 1)) # LastListed(r, ConfigName(handler, 1))
        /\ \E k \in Calls(r, 1, "edit") :
              /\ calls[r][k].st = "ok"
              /\ calls[r][k].id = LastListed(r, ConfigName(handler, 1))

\* something of invocation r has failed: its listing, a token generation or a
\* create/edit request
SomethingFailed(r) ==
    \/ failure[r] # "none"
    \/ \E i \in EndpointIds : tokenSt[r][i] = "failed"
    \/ \E k \in 1..Len(calls[r]) : calls[r][k].st = "failed"

\* C15: nothing is tried twice within an invocation.  It holds at most one
\* create-or-edit request per endpoint, and an invocation in which anything
\* failed is never completed and is failed once it has ended; step by step, a
\* token that was generated is never generated again nor does its promise
\* settle twice, the enumeration never restarts or is re-entered, and an
\* invocation that has ended stays as it ended.
C15_NoRetry ==
    /\ [](\A r \in Runs :
             /\ \A i \in EndpointIds :
                   Cardinality({k \in 1..Len(calls[r]) : calls[r][k].ep = i}) <= 1
             /\ SomethingFailed(r) => pc[r] # "done"
             /\ failure[r] # "none" => pc[r] = "failed")
    /\ [][\A r \in Runs :
             /\ \A i \in EndpointIds :
                   /\ tokenSt[r][i] # "none" => tokens'[r][i] = tokens[r][i]
                   /\ tokenSt[r][i] \in {"ok", "failed"}
                         => tokenSt'[r][i] = tokenSt[r][i]
             /\ cursor'[r] >= cursor[r]
             /\ pc[r] \notin {"idle", "listing"} => pc'[r] # "listing"
             /\ pc[r] \in Final => pc'[r] = pc[r]]_vars

\* an invocation failed on a request it had sent once and did not send again
C15_Witness ==
    \E r \in Runs :
        /\ pc[r] = "failed" /\ failure[r] = "upsert"
        /\ \E k \in 1..Len(calls[r]) :
              /\ calls[r][k].st = "failed"
              /\ Cardinality({j \in 1..Len(calls[r]) : calls[r][j].ep = calls[r][k].ep}) = 1

\* inputs of the signer: the hosts and regions of the deployment and of the
\* configs stored before, both actions the signer documents
SignerHosts == {EndpointHost(i) : i \in EndpointIds} \cup {StaleHost}
SignerRegions == {EndpointRegion(i) : i \in EndpointIds}
SignerActions == {"DbConnect", "DbConnectAdmin"}

\* the URL a token becomes when "https://" is put back in front of it
WithScheme(token) == << "https://" >> \o token

\* the values of query parameter key in url (scheme, host, path, then pairs)
QueryAt(url, key) == {k \in 4..Len(url) : url[k][1] = key}

\* token does not begin with the scheme; with the scheme put back it is a URL
\* on host with one Action parameter, action, and one X-Amz-Expires, 604800
WellFormedToken(token, host, action) ==
    /\ token # << >>
    /\ token[1] # "https://"
    /\ LET url == WithScheme(token)
       IN  /\ url[1] = "https://"
           /\ url[2] = host
           /\ Cardinality(QueryAt(url, "Action")) = 1
           /\ \A k \in QueryAt(url, "Action") : url[k][2] = action
           /\ Cardinality(QueryAt(url, "X-Amz-Expires")) = 1
           /\ \A k \in QueryAt(url, "X-Amz-Expires") : url[k][2] = "604800"

\* C16: for every host, region, action and signing time so far the signer's
\* result is a well-formed token for that host and action; so is every token
\* an invocation holds (for its endpoint's host and DbConnectAdmin).
C16_TokenIsSchemelessSignedUrl ==
    /\ \A host \in SignerHosts : \A region \in SignerRegions :
       \A action \in SignerActions : \A t \in 0..now :
           WellFormedToken(generateDbConnectAdminAuthToken(host, region, action, t),
                           host, action)
    /\ \A r \in Runs : \A i \in EndpointIds :
           tokenSt[r][i] # "none"
               => WellFormedToken(tokens[r][i], EndpointHost(i), "DbConnectAdmin")

\* a token was generated for endpoint 2, resolved, and carries the signature
\* parameters after Action and X-Amz-Expires
C16_Witness ==
    \E r \in Runs :
        /\ tokenSt[r][2] = "ok"
        /\ tokens[r][2][1] = EndpointHost(2)
        /\ QueryAt(WithScheme(tokens[r][2]), "X-Amz-Signature") # {}
        /\ Len(tokens[r][2]) > Len(UnsignedUrl(EndpointHost(2), "DbConnectAdmin")) - 1

\* C17: every HTTP request is answered with status 404; the step that answers
\* it starts no invocation, lists nothing, generates no token, issues no
\* create or edit, and leaves the account as it was.
C17_FetchOnlyAnswers404 ==
    /\ [](httpStatus \in {0, NotFound})
    /\ [][httpStatus' # httpStatus
             => /\ httpStatus' = NotFound
                /\ UNCHANGED << remote, removed, pc, cursor, existingConfigs,
                                found, tokenSt, tokens, calls, now >>]_vars

\* a request was answered while an invocation had requests in flight
C17_Witness ==
    /\ httpStatus = NotFound
    /\ \E r \in Runs : InFlight(r) # {}

\* the clock reading when invocation r started: the clock ticks once per
\* start and the invocations are numbered in the order they start
StartTime(r) == r

\* C18: the password of every create or edit request of invocation r for
\* endpoint i is the token r holds for i, which was signed for i's own host
\* and region at or after the start of r: it is no token of another endpoint,
\* no token signed before r started, and no password the account held when r
\* started.
C18_PasswordIsOwnFreshToken ==
    \A r \in Runs : \A k \in 1..Len(calls[r]) :
        LET i == calls[r][k].ep
            password == calls[r][k].origin.password
        IN  /\ tokenSt[r][i] = "ok"
            /\ password = tokens[r][i]
            /\ calls[r][k].origin.host = EndpointHost(i)
            /\ \E t \in StartTime(r)..now : password = TokenAt(i, t)
            /\ \A t \in 0..(StartTime(r) - 1) : password # TokenAt(i, t)
            /\ \A j \in EndpointIds \ {i} : \A t \in 0..now : password # TokenAt(j, t)
            /\ \A b \in 1..Len(before[r].remote) :
                  password # before[r].remote[b].origin.password

\* the second invocation completed after the first had stored its tokens: both
\* of its requests were applied, each with its own token
C18_Witness ==
    \E r \in Runs \ {1} :
        /\ pc[r] = "done"
        /\ \A q \in Runs : q < r => \E k \in 1..Len(calls[q]) : calls[q][k].st = "ok"
        /\ \A i \in EndpointIds : \E k \in 1..Len(calls[r]) :
              /\ calls[r][k].ep = i /\ calls[r][k].st = "ok"
              /\ calls[r][k].origin.password = tokens[r][i]
              /\ \E j \in 1..Len(Stored) : Stored[j].origin.password = tokens[r][i]

\* part_001: the token of the second endpoint can be there before the first
C18_SecondTokenFirst ==
    \E r \in Runs : tokenSt[r][2] = "ok" /\ tokenSt[r][1] = "pending"

\* C19: the scheduled handler of src/src/index.ts never refreshes a stored
\* config.  It issues no edit; it generates a token for an endpoint only after
\* its enumeration ended without a config of that endpoint's name; an
\* invocation whose enumeration yielded every endpoint's name generates no
\* token, issues no request and completes; and every config the account held
\* when an invocation started is still stored unchanged, password included.
C19_IndexNeverRefreshes ==
    handler = "index.ts"
        => \A r \in Runs :
              /\ \A k \in 1..Len(calls[r]) : calls[r][k].kind = "create"
              /\ \A i \in EndpointIds :
                    tokenSt[r][i] # "none"
                        => /\ ListingComplete(r)
                           /\ ConfigName(handler, i) \notin ListedNames(r)
              /\ (ListingComplete(r) /\ EndpointNames \subseteq ListedNames(r))
                    => /\ calls[r] = << >>
                       /\ \A i \in EndpointIds : tokenSt[r][i] = "none"
                       /\ pc[r] = "done"
              /\ Started(r)
                    => \A k \in 1..Len(before[r].remote) :
                          Stored[k] = before[r].remote[k]

\* index.ts: an invocation found both names and ended without a request; the
\* stored configs still carry the stale origin
C19_Witness ==
    /\ handler = "index.ts"
    /\ \E r \in Runs :
          /\ pc[r] = "done"
          /\ EndpointNames \subseteq ListedNames(r)
          /\ calls[r] = << >>
          /\ Stored = before[r].remote
          /\ \A k \in 1..Len(Stored) : Stored[k].origin = StaleOrigin

\* C20: the upsert handler (part_001) decides between create and edit from
\* what its enumeration yielded and from nothing else.  Once it gets to the
\* upsert of endpoint i it has issued exactly one request for i: a create when
\* the enumeration yielded no config of i's name, whatever the account holds
\* by then; an edit against the id listed last under that name otherwise, also
\* when that config has been deleted since, and then no create follows.
C20_DecisionFromSnapshot ==
    \A r \in Runs : \A i \in EndpointIds :
        (handler = "part_001" /\ ListingComplete(r) /\ Reached(r, i))
            => LET N == ConfigName(handler, i)
               IN  /\ N \notin ListedNames(r)
                         => /\ Cardinality(Calls(r, i, "create")) = 1
                            /\ Calls(r, i, "edit") = {}
                   /\ N \in ListedNames(r)
                         => /\ Cardinality(Calls(r, i, "edit")) = 1
                            /\ Calls(r, i, "create") = {}
                            /\ \A k \in Calls(r, i, "edit") :
                                  /\ calls[r][k].id = LastListed(r, N)
                                  /\ calls[r][k].id = existingConfigs[r][N]

\* the config listed for endpoint 1 was deleted by someone else; the run sent
\* its edit against that id all the same, the edit failed, the run ended as
\* failed without a create, and the account holds no config of that name
C20_Witness ==
    \E r \in Runs :
        /\ handler = "part_001"
        /\ pc[r] = "failed" /\ failure[r] = "upsert"
        /\ ConfigName(handler, 1) \in ListedNames(r)
        /\ ConfigName(handler, 1) \notin NameSet(Stored)
        /\ Calls(r, 1, "create") = {}
        /\ \E k \in Calls(r, 1, "edit") :
              calls[r][k].id \in removed /\ calls[r][k].st = "failed"

\* the window of the claim: the enumeration is over, the requests are not yet
\* chosen, and the listed config of endpoint 1 is gone
C20_RemovedInWindow ==
    \E r \in Runs :
        /\ handler = "part_001" /\ pc[r] = "joinTokens"
        /\ existingConfigs[r][ConfigName(handler, 1)] \in removed

\* the same window with a config of endpoint 1's name stored by another
\* invocation after the enumeration had ended without one
C20_CreatedInWindow ==
    \E r \in Runs :
        /\ handler = "part_001" /\ pc[r] = "joinTokens"
        /\ ConfigName(handler, 1) \notin ListedNames(r)
        /\ ConfigName(handler, 1) \in NameSet(Stored)

\* and the create that follows it
C20_CreatedAnyway ==
    \E r \in Runs : \E q \in Runs \ {r} :
        /\ handler = "part_001"
        /\ ConfigName(handler, 1) \notin ListedNames(r)
        /\ \E k \in Calls(q, 1, "create") : calls[q][k].st = "ok"
        /\ \E k \in Calls(r, 1, "create") : calls[r][k].st = "ok"
        /\ Cardinality(Named(Stored, ConfigName(handler, 1))) = 2

====
